---- MODULE Spec2Model ----
(***************************************************************************)
(* State-machine model of the two on-chain programs of the repository:     *)
(*   sss-token      (programs/sss-token/src/lib.rs)                        *)
(*   transfer-hook  (programs/transfer-hook/src/lib.rs)                    *)
(* Every instruction is one action.  An instruction is a transaction: the  *)
(* account validation declared by its #[derive(Accounts)] context, then    *)
(* the handler, then the write-back of the accounts declared `mut`.  A     *)
(* transaction that returns an error leaves every account as it was.       *)
(*                                                                         *)
(* A Pubkey is a sequence of strings: a wallet is <<"A">>, a program       *)
(* derived address is the program id followed by its seeds.                *)
(***************************************************************************)
EXTENDS Integers, Sequences, FiniteSets, TLC

VARIABLES
    accounts,       \* the accounts of the ledger that hold data (mint
                    \* accounts, configs, minter records, blacklist entries,
                    \* hook configs): address -> deserialized data
    lamports,       \* wallet -> balance, in units of the rent-exempt price of
                    \* one byte of account data (an account of n bytes costs
                    \* its payer 128 + n units); a balance in lamports is
                    \* counted in whole units, rounded down
    ledger_minted,  \* token ledger: mint -> authority -> amount minted by mint_to
    last,           \* the last transaction: instruction, mint, signer (for the
                    \* hook's execute: the source owner), subject (the other
                    \* identity named: minter, user, destination owner),
                    \* amount, result and the CPI made
    pre_add         \* history: the accounts and balances before the last
                    \* successful add_to_blacklist (stage 1), kept one more
                    \* step if a successful remove_from_blacklist of the
                    \* same entry follows it directly (stage 2)

vars == <<accounts, lamports, ledger_minted, last, pre_add>>

-----------------------------------------------------------------------------
(* Bounds of the model *)

MaxQuota == 2
MaxAmount == 2
MaxLedgerMinted == 3
InitLamports == 1250
LowLamports == 700
\* Width of the u64 counters, scaled from 64.
U64_BITS == 3

(* Program constants *)

MAX_NAME_LEN == 100
MAX_SYMBOL_LEN == 10
MAX_URI_LEN == 200
MAX_REASON_LEN == 100
STABLECOIN_CONFIG_LEN == 496
MINTER_INFO_LEN == 57
BLACKLIST_ENTRY_LEN == 153
TRANSFER_HOOK_DATA_LEN == 106
\* Size of a token mint account, created by the `init` of Initialize.mint.
MINT_LEN == 82
\* Bytes of account metadata a rent-exempt balance pays for besides the data.
ACCOUNT_STORAGE_OVERHEAD == 128

-----------------------------------------------------------------------------
(* Keys *)

Wallets == {<<"A">>, <<"B">>}
\* Any signer may create an instrument.
Creators == Wallets
Mints == {<<"M">>}
OtherMint == <<"X">>
\* Two instruments side by side.
Instruments == Mints \cup {OtherMint}
NoKey == <<>>

SSS_TOKEN_ID == <<"Hf1s4EvjS79S6kcHdKhaZHVQsnsjqMbJgBEFZfaGDPmw">>
TRANSFER_HOOK_ID == <<"transfer_hook">>

\* Strings are modelled by their length in characters.
\* (name, symbol, uri): all within their maxima, or one of them too long.
DisplayInputs == {<<MAX_NAME_LEN, MAX_SYMBOL_LEN, MAX_URI_LEN>>,
                  <<MAX_NAME_LEN + 1, MAX_SYMBOL_LEN, MAX_URI_LEN>>,
                  <<MAX_NAME_LEN, MAX_SYMBOL_LEN + 1, MAX_URI_LEN>>,
                  <<MAX_NAME_LEN, MAX_SYMBOL_LEN, MAX_URI_LEN + 1>>}
Decimals == {6}
\* (reason, Clock::get().unix_timestamp) of an add_to_blacklist
ReasonInputs == {<<5, 1>>, <<MAX_REASON_LEN, 2>>, <<MAX_REASON_LEN + 1, 1>>}
Quotas == 0..MaxQuota
Amounts == 0..MaxAmount
\* (enable_permanent_delegate, enable_transfer_hook, default_account_frozen)
FlagInputs == {<<TRUE, TRUE, FALSE>>, <<TRUE, FALSE, TRUE>>,
               <<FALSE, TRUE, TRUE>>, <<FALSE, FALSE, FALSE>>}
ValidDisplay == <<MAX_NAME_LEN, MAX_SYMBOL_LEN, MAX_URI_LEN>>
\* (flags, display) of an initialize: every flag combination with valid
\* display fields, and each oversized display field once.
InitializeInputs ==
    {<<f, ValidDisplay>> : f \in FlagInputs}
    \cup {<<(<<TRUE, TRUE, FALSE>>), d>> : d \in DisplayInputs}
\* Amount of a burn, seize or transfer: handed to the ledger or logged only.
PassedAmounts == {MaxAmount}
TokenAccounts == [owner : Wallets, mint : Mints \cup {OtherMint}]

RECURSIVE SeedBytes(_)
SeedBytes(seeds) ==
    IF seeds = <<>> THEN <<>> ELSE Head(seeds) \o SeedBytes(Tail(seeds))

\* Pubkey::find_program_address: a deterministic, collision-free address
\* that depends on the deriving program and on every seed.
find_program_address(seeds, program_id) == program_id \o SeedBytes(seeds)

ConfigPda(mint) == find_program_address(<<(<<"config">>), mint>>, SSS_TOKEN_ID)

\* Mutant: the minter record's seeds lack the minter's key.
MinterPda_without_minter(mint, minter) ==
    find_program_address(<<(<<"minter">>), ConfigPda(mint)>>, SSS_TOKEN_ID)

MinterPda(mint, minter) ==
    find_program_address(<<(<<"minter">>), ConfigPda(mint), minter>>, SSS_TOKEN_ID)

BlacklistPda(mint, user) ==
    find_program_address(<<(<<"blacklist">>), ConfigPda(mint), user>>, SSS_TOKEN_ID)

HookDataPda(mint) ==
    find_program_address(<<(<<"transfer_hook">>), mint>>, TRANSFER_HOOK_ID)

\* The address the hook's ExecuteTransferHook context derives for a party.
HookBlacklistPda(hook_mint, owner) ==
    find_program_address(<<(<<"blacklist">>), hook_mint, owner>>, TRANSFER_HOOK_ID)

-----------------------------------------------------------------------------
(* Account data *)

\* Mutant: the three roles are left unset at genesis.
StablecoinConfig_roles_unset(authority, mint, name, symbol, uri, decimals, flags) ==
    [ master_authority |-> authority, mint |-> mint,
      name |-> name, symbol |-> symbol, uri |-> uri,
      decimals |-> decimals, paused |-> FALSE,
      enable_permanent_delegate |-> flags[1],
      enable_transfer_hook |-> flags[2],
      default_account_frozen |-> flags[3],
      blacklister |-> NoKey, pauser |-> NoKey, seizer |-> NoKey ]

StablecoinConfig(authority, mint, name, symbol, uri, decimals, flags) ==
    [ master_authority |-> authority, mint |-> mint,
      name |-> name, symbol |-> symbol, uri |-> uri,
      decimals |-> decimals, paused |-> FALSE,
      enable_permanent_delegate |-> flags[1],
      enable_transfer_hook |-> flags[2],
      default_account_frozen |-> flags[3],
      blacklister |-> authority, pauser |-> authority, seizer |-> authority ]

MinterInfo(authority, quota) ==
    [ authority |-> authority, quota |-> quota, minted |-> 0 ]

BlacklistEntry(user, reason, timestamp) ==
    [ user |-> user, reason |-> reason, timestamp |-> timestamp ]

TransferHookData(stablecoin_program, mint, authority) ==
    [ stablecoin_program |-> stablecoin_program, mint |-> mint,
      authority |-> authority, paused |-> FALSE ]

\* The token mint account as Initialize.mint creates it: mint::decimals,
\* mint::authority and mint::freeze_authority.
MintAccount(decimals, authority) ==
    [ decimals |-> decimals, mint_authority |-> authority,
      freeze_authority |-> authority ]

Exists(address) == address \in DOMAIN accounts

\* The `space` an account of this data was created with.
Space(data) ==
    IF "reason" \in DOMAIN data THEN BLACKLIST_ENTRY_LEN
    ELSE IF "quota" \in DOMAIN data THEN MINTER_INFO_LEN
    ELSE IF "stablecoin_program" \in DOMAIN data THEN TRANSFER_HOOK_DATA_LEN
    ELSE IF "mint_authority" \in DOMAIN data THEN MINT_LEN
    ELSE STABLECOIN_CONFIG_LEN

\* AccountInfo::data.len(): zero for an address nothing was created at.
DataLen(address) == IF Exists(address) THEN Space(accounts[address]) ELSE 0

\* Rent::minimum_balance: what `init` moves from the payer to the account.
minimum_balance(space) == ACCOUNT_STORAGE_OVERHEAD + space

-----------------------------------------------------------------------------
(* Outcome of a transaction before commit: its result, the accounts, balances*)
(* and ledger as the instruction left them, and the CPI it made.             *)

NoCpi == [verb |-> "none", authority |-> NoKey]
Cpi(verb, authority) == [verb |-> verb, authority |-> authority]

Outcome(res, accts, lams, minted, cpi) ==
    [res |-> res, accounts |-> accts, lamports |-> lams,
     ledger_minted |-> minted, cpi |-> cpi]

Err(res) == Outcome(res, accounts, lamports, ledger_minted, NoCpi)
ErrAfter(res, accts, lams, cpi) == Outcome(res, accts, lams, ledger_minted, cpi)
Done(accts, lams, cpi) == Outcome("Ok", accts, lams, ledger_minted, cpi)

Put(accts, address, data) ==
    [a \in DOMAIN accts \cup {address} |-> IF a = address THEN data ELSE accts[a]]
Remove(accts, address) ==
    [a \in DOMAIN accts \ {address} |-> accts[a]]
Pay(lams, payer, amount) == [lams EXCEPT ![payer] = @ - amount]
Refund(lams, destination, amount) == [lams EXCEPT ![destination] = @ + amount]

\* Anchor's has_one: the account's field equals the key of the account passed.
has_one(field, key) == field = key

\* The host runtime commits a transaction's writes only if it returned Ok
\* (no code of the two programs: "any failure aborts the entire enclosing
\* transaction").
Committed(out, before, after) == IF out.res = "Ok" THEN after ELSE before

NoSnapshot == [stage |-> 0, accounts |-> << >>, lamports |-> << >>,
               mint |-> NoKey, user |-> NoKey]

Snapshot(op, mint, user, res) ==
    IF op = "add_to_blacklist" /\ res = "Ok"
    THEN [stage |-> 1, accounts |-> accounts, lamports |-> lamports,
          mint |-> mint, user |-> user]
    ELSE IF /\ op = "remove_from_blacklist" /\ res = "Ok"
            /\ pre_add.stage = 1 /\ pre_add.mint = mint /\ pre_add.user = user
    THEN [pre_add EXCEPT !.stage = 2]
    ELSE NoSnapshot

Process(op, mint, signer, subject, amount, out) ==
    /\ pre_add' = Snapshot(op, mint, subject, out.res)
    /\ accounts' = Committed(out, accounts, out.accounts)
    /\ lamports' = Committed(out, lamports, out.lamports)
    /\ ledger_minted' = Committed(out, ledger_minted, out.ledger_minted)
    /\ last' = [op |-> op, mint |-> mint, signer |-> signer, subject |-> subject,
                amount |-> amount, res |-> out.res, cpi |-> out.cpi]

-----------------------------------------------------------------------------
(* sss-token: initialize *)

\* Mutant: config and mint declared init_if_needed, so a second initialize
\* writes the config anew.
initialize_if_needed(authority, mint, name, symbol, uri, decimals, flags) ==
    LET fresh == ~Exists(ConfigPda(mint))
        rent == minimum_balance(STABLECOIN_CONFIG_LEN) + minimum_balance(MINT_LEN)
        created == Put(Put(accounts, ConfigPda(mint),
                           StablecoinConfig(authority, mint, name, symbol, uri,
                                            decimals, flags)),
                       mint, MintAccount(decimals, authority))
        paid == IF fresh THEN Pay(lamports, authority, rent) ELSE lamports
    IN  IF fresh /\ lamports[authority] < rent THEN Err("InsufficientFunds")
        ELSE IF ~(name <= MAX_NAME_LEN) THEN ErrAfter("InvalidAccount", created, paid, NoCpi)
        ELSE IF ~(symbol <= MAX_SYMBOL_LEN) THEN ErrAfter("InvalidAccount", created, paid, NoCpi)
        ELSE IF ~(uri <= MAX_URI_LEN) THEN ErrAfter("InvalidAccount", created, paid, NoCpi)
        ELSE Done(created, paid, NoCpi)

\* The `init` of config, then the `init` of mint, both paid by the signer,
\* then the handler.
initialize(authority, mint, name, symbol, uri, decimals, flags) ==
    IF Exists(ConfigPda(mint)) THEN Err("AccountAlreadyInUse")
    ELSE IF lamports[authority] < minimum_balance(STABLECOIN_CONFIG_LEN)
    THEN Err("InsufficientFunds")
    ELSE LET config_created ==
                 Put(accounts, ConfigPda(mint),
                     StablecoinConfig(NoKey, NoKey, 0, 0, 0, 0, <<FALSE, FALSE, FALSE>>))
             config_paid == Pay(lamports, authority,
                                minimum_balance(STABLECOIN_CONFIG_LEN))
             created == Put(Put(accounts, ConfigPda(mint),
                                StablecoinConfig(authority, mint, name, symbol, uri,
                                                 decimals, flags)),
                            mint, MintAccount(decimals, authority))
             paid == Pay(config_paid, authority, minimum_balance(MINT_LEN))
         IN  IF Exists(mint)
             THEN ErrAfter("AccountAlreadyInUse", config_created, config_paid, NoCpi)
             ELSE IF config_paid[authority] < minimum_balance(MINT_LEN)
             THEN ErrAfter("InsufficientFunds", config_created, config_paid, NoCpi)
             ELSE IF ~(name <= MAX_NAME_LEN) THEN ErrAfter("InvalidAccount", created, paid, NoCpi)
             ELSE IF ~(symbol <= MAX_SYMBOL_LEN) THEN ErrAfter("InvalidAccount", created, paid, NoCpi)
             ELSE IF ~(uri <= MAX_URI_LEN) THEN ErrAfter("InvalidAccount", created, paid, NoCpi)
             ELSE Done(created, paid, NoCpi)

\* initialize for a mint key of `mints`, with arguments of `inputs`.
InitializeOn(mints, inputs) ==
    \E authority \in Creators, mint \in mints, input \in inputs,
       decimals \in Decimals :
        Process("initialize", mint, authority, NoKey, 0,
                initialize(authority, mint, input[2][1], input[2][2], input[2][3],
                           decimals, input[1]))

Initialize == InitializeOn(Mints, InitializeInputs)

-----------------------------------------------------------------------------
(* sss-token: mint, burn *)

\* Anchor writes an account back when the instruction ends only if the
\* account's field is declared `mut` in the context.
AccountsExit(is_mut, loaded, modified) == IF is_mut THEN modified ELSE loaded

\* u64 arithmetic on the counters, at the width U64_BITS.
U64_MAX == 2 ^ U64_BITS - 1

wrapping_add(a, b) == (a + b) % (U64_MAX + 1)

add_overflows(a, b) == a + b > U64_MAX

\* Mutant: minter_info declared `mut`, so the incremented counter is stored.
Mint_minter_info_declared_mut == TRUE

\* Mint.minter_info carries seeds and bump and no `mut`.
Mint_minter_info_mut == FALSE

\* Mutant: the sum is narrowed to half the width before it is compared.
quota_check_narrowed(minted, amount, quota) ==
    (minted + amount) % (2 ^ (U64_BITS - 1)) <= quota

\* minter_info.minted + amount <= minter_info.quota, the sum as a build
\* without overflow checks computes it.
quota_check(minted, amount, quota) == wrapping_add(minted, amount) <= quota

MintResult(res, minter_info, cpi, minted) ==
    [res |-> res, minter_info |-> minter_info, cpi |-> cpi, minted |-> minted]

\* Mutant: the counter is stored and the quota is compared with the counter
\* before the increment only.
mint_late_check(config, minter_info, minter, amount, cpi_ok, overflow_checks) ==
    IF config.paused THEN MintResult("TokenPaused", minter_info, NoCpi, 0)
    ELSE IF ~(minter_info.minted <= minter_info.quota)
    THEN MintResult("QuotaExceeded", minter_info, NoCpi, 0)
    ELSE LET updated == [minter_info EXCEPT !.minted = @ + amount]
             cpi == Cpi("mint_to", minter)
         IN  IF ~cpi_ok THEN MintResult("LedgerError", updated, cpi, 0)
             ELSE MintResult("Ok", updated, cpi, amount)

\* Mutant: the quota check is missing.
mint_without_quota_check(config, minter_info, minter, amount, cpi_ok, overflow_checks) ==
    IF config.paused THEN MintResult("TokenPaused", minter_info, NoCpi, 0)
    ELSE LET updated == [minter_info EXCEPT !.minted = @ + amount]
             cpi == Cpi("mint_to", minter)
         IN  IF ~cpi_ok THEN MintResult("LedgerError", updated, cpi, 0)
             ELSE MintResult("Ok", AccountsExit(Mint_minter_info_mut, minter_info, updated),
                             cpi, amount)

\* The handler on the loaded config and minter record: the result, the
\* minter record as stored when the transaction ends, the CPI made and the
\* amount the ledger minted. The sum minted + amount is a plain `+` on u64:
\* a build with overflow checks panics on overflow, a build without wraps.
mint(config, minter_info, minter, amount, cpi_ok, overflow_checks) ==
    IF config.paused THEN MintResult("TokenPaused", minter_info, NoCpi, 0)
    ELSE IF overflow_checks /\ add_overflows(minter_info.minted, amount)
    THEN MintResult("ProgramFailedToComplete", minter_info, NoCpi, 0)
    ELSE IF ~quota_check(minter_info.minted, amount, minter_info.quota)
    THEN MintResult("QuotaExceeded", minter_info, NoCpi, 0)
    ELSE LET updated == [minter_info EXCEPT
                             !.minted = wrapping_add(minter_info.minted, amount)]
             cpi == Cpi("mint_to", minter)
         IN  IF ~cpi_ok THEN MintResult("LedgerError", updated, cpi, 0)
             ELSE MintResult("Ok", AccountsExit(Mint_minter_info_mut, minter_info, updated),
                             cpi, amount)

mint_tx(minter, mint_key, amount, cpi_ok, overflow_checks) ==
    IF ~Exists(ConfigPda(mint_key)) THEN Err("AccountNotInitialized")
    ELSE IF ~Exists(MinterPda(mint_key, minter)) THEN Err("AccountNotInitialized")
    ELSE LET r == mint(accounts[ConfigPda(mint_key)],
                       accounts[MinterPda(mint_key, minter)], minter, amount, cpi_ok,
                       overflow_checks)
         IN  Outcome(r.res, Put(accounts, MinterPda(mint_key, minter), r.minter_info),
                     lamports,
                     [ledger_minted EXCEPT ![mint_key][minter] = @ + r.minted],
                     r.cpi)

\* mint for a mint key of `mints` and an amount of `amounts`, while the
\* ledger's total for the minter stays within `cap`.
MintOn(mints, amounts, cap) ==
    \E minter \in Wallets, mint_key \in mints, amount \in amounts, cpi_ok \in BOOLEAN,
       overflow_checks \in BOOLEAN :
        /\ ledger_minted[mint_key][minter] + amount <= cap
        /\ Process("mint", mint_key, minter, NoKey, amount,
                   mint_tx(minter, mint_key, amount, cpi_ok, overflow_checks))

Mint == MintOn(Mints, Amounts, MaxLedgerMinted)

burn(burner, mint_key, amount, cpi_ok) ==
    IF ~Exists(ConfigPda(mint_key)) THEN Err("AccountNotInitialized")
    ELSE IF accounts[ConfigPda(mint_key)].paused THEN Err("TokenPaused")
    ELSE IF ~cpi_ok
    THEN ErrAfter("LedgerError", accounts, lamports, Cpi("burn", burner))
    ELSE Done(accounts, lamports, Cpi("burn", burner))

Burn ==
    \E burner \in Wallets, mint_key \in Mints, amount \in PassedAmounts,
       cpi_ok \in BOOLEAN :
        Process("burn", mint_key, burner, NoKey, 0,
                burn(burner, mint_key, amount, cpi_ok))

-----------------------------------------------------------------------------
(* sss-token: freeze_account, thaw_account, seize *)

freeze_account(freeze_authority, mint_key, cpi_ok) ==
    IF ~Exists(ConfigPda(mint_key)) THEN Err("AccountNotInitialized")
    ELSE IF ~cpi_ok
    THEN ErrAfter("LedgerError", accounts, lamports, Cpi("freeze_account", freeze_authority))
    ELSE Done(accounts, lamports, Cpi("freeze_account", freeze_authority))

FreezeAccount ==
    \E freeze_authority \in Wallets, mint_key \in Mints, cpi_ok \in BOOLEAN :
        Process("freeze_account", mint_key, freeze_authority, NoKey, 0,
                freeze_account(freeze_authority, mint_key, cpi_ok))

thaw_account(freeze_authority, mint_key, cpi_ok) ==
    IF ~Exists(ConfigPda(mint_key)) THEN Err("AccountNotInitialized")
    ELSE IF ~cpi_ok
    THEN ErrAfter("LedgerError", accounts, lamports, Cpi("thaw_account", freeze_authority))
    ELSE Done(accounts, lamports, Cpi("thaw_account", freeze_authority))

ThawAccount ==
    \E freeze_authority \in Wallets, mint_key \in Mints, cpi_ok \in BOOLEAN :
        Process("thaw_account", mint_key, freeze_authority, NoKey, 0,
                thaw_account(freeze_authority, mint_key, cpi_ok))

\* Mutant: seize checks the pause flag as mint and burn do.
seize_blocked_by_pause(seizer, mint_key, amount, cpi_ok) ==
    IF ~Exists(ConfigPda(mint_key)) THEN Err("AccountNotInitialized")
    ELSE LET config == accounts[ConfigPda(mint_key)]
             cpi == Cpi("transfer_checked", seizer)
         IN  IF ~has_one(config.seizer, seizer) THEN Err("Unauthorized")
             ELSE IF config.paused THEN Err("TokenPaused")
             ELSE IF ~config.enable_permanent_delegate
             THEN Err("PermanentDelegateNotEnabled")
             ELSE IF ~cpi_ok THEN ErrAfter("LedgerError", accounts, lamports, cpi)
             ELSE Done(accounts, lamports, cpi)

\* Mutant: the enable_permanent_delegate check is missing.
seize_without_flag_check(seizer, mint_key, amount, cpi_ok) ==
    IF ~Exists(ConfigPda(mint_key)) THEN Err("AccountNotInitialized")
    ELSE LET config == accounts[ConfigPda(mint_key)]
             cpi == Cpi("transfer_checked", seizer)
         IN  IF ~has_one(config.seizer, seizer) THEN Err("Unauthorized")
             ELSE IF ~cpi_ok THEN ErrAfter("LedgerError", accounts, lamports, cpi)
             ELSE Done(accounts, lamports, cpi)

seize(seizer, mint_key, amount, cpi_ok) ==
    IF ~Exists(ConfigPda(mint_key)) THEN Err("AccountNotInitialized")
    ELSE LET config == accounts[ConfigPda(mint_key)]
             cpi == Cpi("transfer_checked", seizer)
         IN  IF ~has_one(config.seizer, seizer) THEN Err("Unauthorized")
             ELSE IF ~config.enable_permanent_delegate
             THEN Err("PermanentDelegateNotEnabled")
             ELSE IF ~cpi_ok THEN ErrAfter("LedgerError", accounts, lamports, cpi)
             ELSE Done(accounts, lamports, cpi)

Seize ==
    \E seizer \in Wallets, mint_key \in Mints, amount \in PassedAmounts,
       cpi_ok \in BOOLEAN :
        Process("seize", mint_key, seizer, NoKey, 0,
                seize(seizer, mint_key, amount, cpi_ok))

-----------------------------------------------------------------------------
(* sss-token: pause, unpause, update_roles, transfer_authority *)

\* Mutant: the master authority may pause as well as the pauser.
pause_by_master_too(pauser, mint_key) ==
    IF ~Exists(ConfigPda(mint_key)) THEN Err("AccountNotInitialized")
    ELSE LET config == accounts[ConfigPda(mint_key)]
         IN  IF ~(has_one(config.pauser, pauser) \/ has_one(config.master_authority, pauser))
             THEN Err("Unauthorized")
             ELSE Done(Put(accounts, ConfigPda(mint_key), [config EXCEPT !.paused = TRUE]),
                       lamports, NoCpi)

pause(pauser, mint_key) ==
    IF ~Exists(ConfigPda(mint_key)) THEN Err("AccountNotInitialized")
    ELSE LET config == accounts[ConfigPda(mint_key)]
         IN  IF ~has_one(config.pauser, pauser) THEN Err("Unauthorized")
             ELSE Done(Put(accounts, ConfigPda(mint_key), [config EXCEPT !.paused = TRUE]),
                       lamports, NoCpi)

Pause ==
    \E pauser \in Wallets, mint_key \in Mints :
        Process("pause", mint_key, pauser, NoKey, 0, pause(pauser, mint_key))

unpause(pauser, mint_key) ==
    IF ~Exists(ConfigPda(mint_key)) THEN Err("AccountNotInitialized")
    ELSE LET config == accounts[ConfigPda(mint_key)]
         IN  IF ~has_one(config.pauser, pauser) THEN Err("Unauthorized")
             ELSE Done(Put(accounts, ConfigPda(mint_key), [config EXCEPT !.paused = FALSE]),
                       lamports, NoCpi)

Unpause ==
    \E pauser \in Wallets, mint_key \in Mints :
        Process("unpause", mint_key, pauser, NoKey, 0, unpause(pauser, mint_key))

\* Mutant: the has_one constraint on config is missing.
update_roles_unchecked(master_authority, mint_key, new_blacklister, new_pauser, new_seizer) ==
    IF ~Exists(ConfigPda(mint_key)) THEN Err("AccountNotInitialized")
    ELSE LET config == accounts[ConfigPda(mint_key)]
         IN  Done(Put(accounts, ConfigPda(mint_key),
                      [config EXCEPT !.blacklister = new_blacklister,
                                     !.pauser = new_pauser,
                                     !.seizer = new_seizer]),
                  lamports, NoCpi)

update_roles(master_authority, mint_key, new_blacklister, new_pauser, new_seizer) ==
    IF ~Exists(ConfigPda(mint_key)) THEN Err("AccountNotInitialized")
    ELSE LET config == accounts[ConfigPda(mint_key)]
         IN  IF ~has_one(config.master_authority, master_authority) THEN Err("Unauthorized")
             ELSE Done(Put(accounts, ConfigPda(mint_key),
                           [config EXCEPT !.blacklister = new_blacklister,
                                          !.pauser = new_pauser,
                                          !.seizer = new_seizer]),
                       lamports, NoCpi)

UpdateRoles ==
    \E master_authority \in Wallets, mint_key \in Mints,
       new_blacklister \in Wallets, new_pauser \in Wallets, new_seizer \in Wallets :
        Process("update_roles", mint_key, master_authority, NoKey, 0,
                update_roles(master_authority, mint_key,
                             new_blacklister, new_pauser, new_seizer))

\* Mutant: the three roles follow the master authority to the new key.
transfer_authority_with_roles(master_authority, mint_key, new_master_authority) ==
    IF ~Exists(ConfigPda(mint_key)) THEN Err("AccountNotInitialized")
    ELSE LET config == accounts[ConfigPda(mint_key)]
         IN  IF ~has_one(config.master_authority, master_authority) THEN Err("Unauthorized")
             ELSE Done(Put(accounts, ConfigPda(mint_key),
                           [config EXCEPT !.master_authority = new_master_authority,
                                          !.blacklister = new_master_authority,
                                          !.pauser = new_master_authority,
                                          !.seizer = new_master_authority]),
                       lamports, NoCpi)

transfer_authority(master_authority, mint_key, new_master_authority) ==
    IF ~Exists(ConfigPda(mint_key)) THEN Err("AccountNotInitialized")
    ELSE LET config == accounts[ConfigPda(mint_key)]
         IN  IF ~has_one(config.master_authority, master_authority) THEN Err("Unauthorized")
             ELSE Done(Put(accounts, ConfigPda(mint_key),
                           [config EXCEPT !.master_authority = new_master_authority]),
                       lamports, NoCpi)

TransferAuthority ==
    \E master_authority \in Wallets, mint_key \in Mints, new_master_authority \in Wallets :
        Process("transfer_authority", mint_key, master_authority, new_master_authority, 0,
                transfer_authority(master_authority, mint_key, new_master_authority))

-----------------------------------------------------------------------------
(* sss-token: add_minter, update_minter_quota, remove_minter *)

\* Mutant: minter_info declared init_if_needed, so a second add_minter writes
\* the record anew.
add_minter_if_needed(master_authority, mint_key, minter, quota) ==
    IF ~Exists(ConfigPda(mint_key)) THEN Err("AccountNotInitialized")
    ELSE LET config == accounts[ConfigPda(mint_key)]
             fresh == ~Exists(MinterPda(mint_key, minter))
             paid == IF fresh
                     THEN Pay(lamports, master_authority, minimum_balance(MINTER_INFO_LEN))
                     ELSE lamports
         IN  IF fresh /\ lamports[master_authority] < minimum_balance(MINTER_INFO_LEN)
             THEN Err("InsufficientFunds")
             ELSE IF ~has_one(config.master_authority, master_authority)
             THEN Err("Unauthorized")
             ELSE Done(Put(accounts, MinterPda(mint_key, minter), MinterInfo(minter, quota)),
                       paid, NoCpi)

\* The `init` of minter_info, paid by the signer, runs before the has_one
\* check of config.
add_minter(master_authority, mint_key, minter, quota) ==
    IF ~Exists(ConfigPda(mint_key)) THEN Err("AccountNotInitialized")
    ELSE IF Exists(MinterPda(mint_key, minter)) THEN Err("AccountAlreadyInUse")
    ELSE IF lamports[master_authority] < minimum_balance(MINTER_INFO_LEN)
    THEN Err("InsufficientFunds")
    ELSE LET config == accounts[ConfigPda(mint_key)]
             paid == Pay(lamports, master_authority, minimum_balance(MINTER_INFO_LEN))
             allocated == Put(accounts, MinterPda(mint_key, minter), MinterInfo(NoKey, 0))
         IN  IF ~has_one(config.master_authority, master_authority)
             THEN ErrAfter("Unauthorized", allocated, paid, NoCpi)
             ELSE Done(Put(accounts, MinterPda(mint_key, minter), MinterInfo(minter, quota)),
                       paid, NoCpi)

\* add_minter for a mint key of `mints` and a quota of `quotas`.
AddMinterOn(mints, quotas) ==
    \E master_authority \in Wallets, mint_key \in mints, minter \in Wallets,
       quota \in quotas :
        Process("add_minter", mint_key, master_authority, minter, 0,
                add_minter(master_authority, mint_key, minter, quota))

AddMinter == AddMinterOn(Mints, Quotas)

update_minter_quota(master_authority, mint_key, minter, new_quota) ==
    IF ~Exists(ConfigPda(mint_key)) THEN Err("AccountNotInitialized")
    ELSE IF ~Exists(MinterPda(mint_key, minter)) THEN Err("AccountNotInitialized")
    ELSE LET config == accounts[ConfigPda(mint_key)]
             minter_info == accounts[MinterPda(mint_key, minter)]
         IN  IF ~has_one(config.master_authority, master_authority) THEN Err("Unauthorized")
             ELSE Done(Put(accounts, MinterPda(mint_key, minter),
                           [minter_info EXCEPT !.quota = new_quota]),
                       lamports, NoCpi)

UpdateMinterQuota ==
    \E master_authority \in Wallets, mint_key \in Mints, minter \in Wallets,
       new_quota \in Quotas :
        Process("update_minter_quota", mint_key, master_authority, minter, 0,
                update_minter_quota(master_authority, mint_key, minter, new_quota))

remove_minter(master_authority, mint_key, minter) ==
    IF ~Exists(ConfigPda(mint_key)) THEN Err("AccountNotInitialized")
    ELSE IF ~Exists(MinterPda(mint_key, minter)) THEN Err("AccountNotInitialized")
    ELSE LET config == accounts[ConfigPda(mint_key)]
             minter_info == accounts[MinterPda(mint_key, minter)]
         IN  IF ~has_one(config.master_authority, master_authority) THEN Err("Unauthorized")
             ELSE Done(Put(accounts, MinterPda(mint_key, minter),
                           [minter_info EXCEPT !.quota = 0]),
                       lamports, NoCpi)

RemoveMinter ==
    \E master_authority \in Wallets, mint_key \in Mints, minter \in Wallets :
        Process("remove_minter", mint_key, master_authority, minter, 0,
                remove_minter(master_authority, mint_key, minter))

-----------------------------------------------------------------------------
(* sss-token: add_to_blacklist, remove_from_blacklist *)

\* Mutant: blacklist_entry declared init_if_needed, so an entry that exists is
\* written over.
add_to_blacklist_if_needed(blacklister, mint_key, user, reason, unix_timestamp) ==
    IF ~Exists(ConfigPda(mint_key)) THEN Err("AccountNotInitialized")
    ELSE LET config == accounts[ConfigPda(mint_key)]
             fresh == ~Exists(BlacklistPda(mint_key, user))
             paid == IF fresh THEN Pay(lamports, blacklister,
                         minimum_balance(BLACKLIST_ENTRY_LEN)) ELSE lamports
         IN  IF fresh /\ lamports[blacklister] < minimum_balance(BLACKLIST_ENTRY_LEN) THEN Err("InsufficientFunds")
             ELSE IF ~has_one(config.blacklister, blacklister) THEN Err("Unauthorized")
             ELSE IF ~config.enable_transfer_hook THEN Err("ComplianceNotEnabled")
             ELSE IF ~(reason <= MAX_REASON_LEN) THEN Err("InvalidAccount")
             ELSE Done(Put(accounts, BlacklistPda(mint_key, user),
                           BlacklistEntry(user, reason, unix_timestamp)),
                       paid, NoCpi)

\* The `init` of blacklist_entry runs before the has_one check of config and
\* before the handler.
add_to_blacklist(blacklister, mint_key, user, reason, unix_timestamp) ==
    IF ~Exists(ConfigPda(mint_key)) THEN Err("AccountNotInitialized")
    ELSE IF Exists(BlacklistPda(mint_key, user)) THEN Err("AccountAlreadyInUse")
    ELSE IF lamports[blacklister] < minimum_balance(BLACKLIST_ENTRY_LEN) THEN Err("InsufficientFunds")
    ELSE LET config == accounts[ConfigPda(mint_key)]
             paid == Pay(lamports, blacklister,
                         minimum_balance(BLACKLIST_ENTRY_LEN))
             allocated == Put(accounts, BlacklistPda(mint_key, user),
                              BlacklistEntry(NoKey, 0, 0))
         IN  IF ~has_one(config.blacklister, blacklister)
             THEN ErrAfter("Unauthorized", allocated, paid, NoCpi)
             ELSE IF ~config.enable_transfer_hook
             THEN ErrAfter("ComplianceNotEnabled", allocated, paid, NoCpi)
             ELSE IF ~(reason <= MAX_REASON_LEN)
             THEN ErrAfter("InvalidAccount", allocated, paid, NoCpi)
             ELSE Done(Put(accounts, BlacklistPda(mint_key, user),
                           BlacklistEntry(user, reason, unix_timestamp)),
                       paid, NoCpi)

AddToBlacklist ==
    \E blacklister \in Wallets, mint_key \in Mints, user \in Wallets,
       input \in ReasonInputs :
        Process("add_to_blacklist", mint_key, blacklister, user, 0,
                add_to_blacklist(blacklister, mint_key, user, input[1], input[2]))

\* Mutant: the entry is destroyed and its rent is not returned.
remove_without_refund(blacklister, mint_key, user, cpi_ok) ==
    IF ~Exists(ConfigPda(mint_key)) THEN Err("AccountNotInitialized")
    ELSE IF ~Exists(BlacklistPda(mint_key, user)) THEN Err("AccountNotInitialized")
    ELSE LET config == accounts[ConfigPda(mint_key)]
             cpi == Cpi("close_account", blacklister)
         IN  IF ~has_one(config.blacklister, blacklister) THEN Err("Unauthorized")
             ELSE IF ~config.enable_transfer_hook THEN Err("ComplianceNotEnabled")
             ELSE IF ~cpi_ok THEN ErrAfter("CloseFailed", accounts, lamports, cpi)
             ELSE Done(Remove(accounts, BlacklistPda(mint_key, user)), lamports, cpi)

\* The entry is closed to the blacklister: the account is destroyed and its
\* rent credited to the signer.
remove_from_blacklist(blacklister, mint_key, user, cpi_ok) ==
    IF ~Exists(ConfigPda(mint_key)) THEN Err("AccountNotInitialized")
    ELSE IF ~Exists(BlacklistPda(mint_key, user)) THEN Err("AccountNotInitialized")
    ELSE LET config == accounts[ConfigPda(mint_key)]
             cpi == Cpi("close_account", blacklister)
         IN  IF ~has_one(config.blacklister, blacklister) THEN Err("Unauthorized")
             ELSE IF ~config.enable_transfer_hook THEN Err("ComplianceNotEnabled")
             ELSE IF ~cpi_ok THEN ErrAfter("CloseFailed", accounts, lamports, cpi)
             ELSE Done(Remove(accounts, BlacklistPda(mint_key, user)),
                       Refund(lamports, blacklister,
                              minimum_balance(BLACKLIST_ENTRY_LEN)), cpi)

RemoveFromBlacklist ==
    \E blacklister \in Wallets, mint_key \in Mints, user \in Wallets, cpi_ok \in BOOLEAN :
        Process("remove_from_blacklist", mint_key, blacklister, user, 0,
                remove_from_blacklist(blacklister, mint_key, user, cpi_ok))

-----------------------------------------------------------------------------
(* transfer-hook *)

\* InitializeTransferHook.mint is an Account<Mint>: a token mint account
\* exists at the address, whoever created it.
MintExists(mint_key) ==
    Exists(mint_key) /\ "mint_authority" \in DOMAIN accounts[mint_key]

\* The mint is loaded, then the `init` of hook_data, paid by the signer.
hook_initialize(authority, mint_key, stablecoin_program) ==
    IF ~MintExists(mint_key) THEN Err("AccountNotInitialized")
    ELSE IF Exists(HookDataPda(mint_key)) THEN Err("AccountAlreadyInUse")
    ELSE IF lamports[authority] < minimum_balance(TRANSFER_HOOK_DATA_LEN)
    THEN Err("InsufficientFunds")
    ELSE Done(Put(accounts, HookDataPda(mint_key),
                  TransferHookData(stablecoin_program, mint_key, authority)),
              Pay(lamports, authority, minimum_balance(TRANSFER_HOOK_DATA_LEN)),
              NoCpi)

HookInitialize ==
    \E authority \in Wallets, mint_key \in Mints :
        Process("hook_initialize", mint_key, authority, NoKey, 0,
                hook_initialize(authority, mint_key, SSS_TOKEN_ID))

\* Mutant: the hook's pause sets the instrument's pause flag as well.
hook_pause_instrument_too(authority, mint_key) ==
    IF ~Exists(HookDataPda(mint_key)) THEN Err("AccountNotInitialized")
    ELSE LET hook_data == accounts[HookDataPda(mint_key)]
             paused == Put(accounts, HookDataPda(mint_key),
                           [hook_data EXCEPT !.paused = TRUE])
         IN  IF ~has_one(hook_data.authority, authority)
             THEN Err("InvalidTransferHookAccount")
             ELSE IF ~Exists(ConfigPda(mint_key)) THEN Done(paused, lamports, NoCpi)
             ELSE Done(Put(paused, ConfigPda(mint_key),
                           [accounts[ConfigPda(mint_key)] EXCEPT !.paused = TRUE]),
                       lamports, NoCpi)

hook_pause(authority, mint_key) ==
    IF ~Exists(HookDataPda(mint_key)) THEN Err("AccountNotInitialized")
    ELSE LET hook_data == accounts[HookDataPda(mint_key)]
         IN  IF ~has_one(hook_data.authority, authority)
             THEN Err("InvalidTransferHookAccount")
             ELSE Done(Put(accounts, HookDataPda(mint_key),
                           [hook_data EXCEPT !.paused = TRUE]), lamports, NoCpi)

HookPause ==
    \E authority \in Wallets, mint_key \in Mints :
        Process("hook_pause", mint_key, authority, NoKey, 0,
                hook_pause(authority, mint_key))

hook_unpause(authority, mint_key) ==
    IF ~Exists(HookDataPda(mint_key)) THEN Err("AccountNotInitialized")
    ELSE LET hook_data == accounts[HookDataPda(mint_key)]
         IN  IF ~has_one(hook_data.authority, authority)
             THEN Err("InvalidTransferHookAccount")
             ELSE Done(Put(accounts, HookDataPda(mint_key),
                           [hook_data EXCEPT !.paused = FALSE]), lamports, NoCpi)

HookUnpause ==
    \E authority \in Wallets, mint_key \in Mints :
        Process("hook_unpause", mint_key, authority, NoKey, 0,
                hook_unpause(authority, mint_key))

extra_account_metas(mint_key) ==
    IF ~Exists(HookDataPda(mint_key)) THEN Err("AccountNotInitialized")
    ELSE Done(accounts, lamports, NoCpi)

ExtraAccountMetas ==
    \E mint_key \in Mints :
        Process("extra_account_metas", mint_key, NoKey, NoKey, 0,
                extra_account_metas(mint_key))

\* The handler: hook pause flag, then the data length of the account at the
\* address derived for the source owner, then for the destination owner.
execute(hook_data, sender, recipient) ==
    IF hook_data.paused THEN "TransferPaused"
    ELSE IF DataLen(HookBlacklistPda(hook_data.mint, sender)) > 0
    THEN "SenderBlacklisted"
    ELSE IF DataLen(HookBlacklistPda(hook_data.mint, recipient)) > 0
    THEN "RecipientBlacklisted"
    ELSE "Ok"

\* Mutant: sender_blacklist declared init_if_needed, so an accepted transfer
\* creates the account it probed.
execute_tx_init_if_needed(mint_key, source_token, dest_token) ==
    IF ~Exists(HookDataPda(mint_key)) THEN Err("AccountNotInitialized")
    ELSE LET hook_data == accounts[HookDataPda(mint_key)]
         IN  IF source_token.mint # hook_data.mint THEN Err("InvalidMintAccount")
             ELSE IF dest_token.mint # hook_data.mint THEN Err("InvalidMintAccount")
             ELSE LET res == execute(hook_data, source_token.owner, dest_token.owner)
                  IN  IF res # "Ok" THEN Err(res)
                      ELSE Done(Put(accounts,
                                    HookBlacklistPda(hook_data.mint, source_token.owner),
                                    BlacklistEntry(NoKey, 0, 0)),
                                lamports, NoCpi)

execute_tx(mint_key, source_token, dest_token) ==
    IF ~Exists(HookDataPda(mint_key)) THEN Err("AccountNotInitialized")
    ELSE LET hook_data == accounts[HookDataPda(mint_key)]
         IN  IF source_token.mint # hook_data.mint THEN Err("InvalidMintAccount")
             ELSE IF dest_token.mint # hook_data.mint THEN Err("InvalidMintAccount")
             ELSE Err(execute(hook_data, source_token.owner, dest_token.owner))

Execute ==
    \E mint_key \in Mints, source_token \in TokenAccounts, dest_token \in TokenAccounts,
       amount \in PassedAmounts :
        Process("execute", mint_key, source_token.owner, dest_token.owner, 0,
                execute_tx(mint_key, source_token, dest_token))

update_authority(authority, mint_key, new_authority) ==
    IF ~Exists(HookDataPda(mint_key)) THEN Err("AccountNotInitialized")
    ELSE LET hook_data == accounts[HookDataPda(mint_key)]
         IN  IF ~has_one(hook_data.authority, authority)
             THEN Err("InvalidTransferHookAccount")
             ELSE Done(Put(accounts, HookDataPda(mint_key),
                           [hook_data EXCEPT !.authority = new_authority]),
                       lamports, NoCpi)

UpdateAuthority ==
    \E authority \in Wallets, mint_key \in Mints, new_authority \in Wallets :
        Process("update_authority", mint_key, authority, new_authority, 0,
                update_authority(authority, mint_key, new_authority))

-----------------------------------------------------------------------------

NoCall == [op |-> "none", mint |-> NoKey, signer |-> NoKey, subject |-> NoKey,
           amount |-> 0, res |-> "Ok", cpi |-> NoCpi]

\* The ledger before the first transaction: no account of either program, and
\* the mint address free or holding a token mint created outside sss-token.
LedgerInputs ==
    {<< >>} \cup {[a \in {m} |-> MintAccount(d, w)] :
                    m \in Mints, d \in Decimals, w \in Wallets}

Init ==
    /\ accounts \in LedgerInputs
    /\ lamports = [w \in Wallets |-> InitLamports]
    /\ ledger_minted = [m \in Instruments |-> [w \in Wallets |-> 0]]
    /\ last = NoCall
    /\ pre_add = NoSnapshot

Next ==
    \/ Initialize \/ Pause \/ Unpause \/ UpdateRoles \/ TransferAuthority
    \/ AddMinter \/ UpdateMinterQuota \/ RemoveMinter \/ Mint \/ Burn
    \/ FreezeAccount \/ ThawAccount \/ Seize
    \/ AddToBlacklist \/ RemoveFromBlacklist
    \/ HookInitialize \/ HookPause \/ HookUnpause \/ ExtraAccountMetas
    \/ Execute \/ UpdateAuthority

Spec == Init /\ [][Next]_vars

\* Issuance: the pause flag, the minter records, mint and burn, and the
\* instructions that reach the ledger whatever the pause flag.
NextIssuance ==
    \/ Initialize \/ Pause \/ Unpause
    \/ AddMinter \/ UpdateMinterQuota \/ RemoveMinter \/ Mint \/ Burn
    \/ FreezeAccount \/ ThawAccount \/ Seize

SpecIssuance == Init /\ [][NextIssuance]_vars

\* The minter records: the instructions that create or write one, and those
\* that reach the ledger's supply.
NextQuota ==
    \/ Initialize \/ AddMinter \/ UpdateMinterQuota \/ RemoveMinter
    \/ Mint \/ Burn

SpecQuota == Init /\ [][NextQuota]_vars

\* Issuance under quotas that stay as granted: mint transactions of any
\* minters and amounts, in any order, each executed as one atomic step.
NextConcurrentIssue ==
    \/ Initialize \/ AddMinter \/ Mint \/ Pause \/ Unpause

SpecConcurrentIssue == Init /\ [][NextConcurrentIssue]_vars

\* The two pause flags, and the issuance the instrument's flag gates.
NextPause ==
    \/ Initialize \/ Pause \/ Unpause \/ AddMinter \/ Mint \/ Burn
    \/ HookInitialize \/ HookPause \/ HookUnpause

SpecPause == Init /\ [][NextPause]_vars

\* The instrument config: every instruction that creates or writes it.
NextConfig ==
    \/ Initialize \/ Pause \/ Unpause \/ UpdateRoles \/ TransferAuthority

SpecConfig == Init /\ [][NextConfig]_vars

\* Two instruments side by side, each with its own config and minter
\* records: the instructions that create them, and mint.
\* Each is created with valid display fields and one flag combination, its
\* minters are granted one of two quotas, and mint up to the largest amount.
InstrumentInputs == {<<(<<TRUE, TRUE, FALSE>>), ValidDisplay>>}

NextInstruments ==
    \/ InitializeOn(Instruments, InstrumentInputs)
    \/ AddMinterOn(Instruments, {1, MaxQuota})
    \/ MintOn(Instruments, {1, MaxAmount}, MaxAmount)

SpecInstruments == Init /\ [][NextInstruments]_vars

\* Issuance with quotas and amounts over the whole width of the counters, on
\* an instrument created with one flag combination and valid display fields.
FullWidth == 0..U64_MAX

NextFullWidth ==
    \/ InitializeOn(Mints, InstrumentInputs) \/ AddMinterOn(Mints, FullWidth)
    \/ MintOn(Mints, FullWidth, U64_MAX)

SpecFullWidth == Init /\ [][NextFullWidth]_vars

\* Genesis and the role-gated instructions, with no update_roles and no
\* transfer_authority: the roles are those initialize recorded.
NextGenesis ==
    \/ Initialize \/ Pause \/ Unpause
    \/ Seize \/ AddToBlacklist \/ RemoveFromBlacklist

SpecGenesis == Init /\ [][NextGenesis]_vars

\* Administration: every instruction gated by the master authority.
NextAdmin ==
    \/ Initialize \/ UpdateRoles \/ TransferAuthority
    \/ AddMinter \/ UpdateMinterQuota \/ RemoveMinter

SpecAdmin == Init /\ [][NextAdmin]_vars

\* The delegated roles: the instruction that assigns them and the
\* instructions each of them gates.
NextRoles ==
    \/ Initialize \/ UpdateRoles \/ Pause \/ Unpause
    \/ Seize \/ AddToBlacklist \/ RemoveFromBlacklist

SpecRoles == Init /\ [][NextRoles]_vars

\* The blacklist of sss-token and the transfer hook, with both pause flags.
NextCompliance ==
    \/ Initialize \/ Pause \/ Unpause
    \/ AddToBlacklist \/ RemoveFromBlacklist
    \/ HookInitialize \/ HookPause \/ HookUnpause \/ ExtraAccountMetas
    \/ Execute \/ UpdateAuthority

\* The ledger before the first transaction, with every wallet either funded
\* as in Init or short of the rent of an instrument: enough for the config,
\* not for config and mint.
FundingInputs == [Wallets -> {LowLamports, InitLamports}]

InitCompliance ==
    /\ accounts \in LedgerInputs
    /\ lamports \in FundingInputs
    /\ ledger_minted = [m \in Instruments |-> [w \in Wallets |-> 0]]
    /\ last = NoCall
    /\ pre_add = NoSnapshot

SpecCompliance == InitCompliance /\ [][NextCompliance]_vars

-----------------------------------------------------------------------------
(* Properties *)

Config(m) == accounts[ConfigPda(m)]
\* The signer of the initialize that created the instrument: Initialize.mint
\* is created with mint::authority = authority, and nothing changes it.
Creator(m) == accounts[m].mint_authority
Minter(m, w) == accounts[MinterPda(m, w)]
HookData(m) == accounts[HookDataPda(m)]
Unchanged == accounts' = accounts /\ lamports' = lamports
             /\ ledger_minted' = ledger_minted

\* C1: whenever the hook is not paused, execute rejects a transfer if and only
\* if a blacklist entry created by add_to_blacklist (and not removed since)
\* exists for the owner of the source or of the destination account.
C1_HookRejectsIffBlacklisted ==
    \A m \in Mints :
        (/\ last.op = "execute" /\ last.mint = m
         /\ last.res \in {"Ok", "SenderBlacklisted", "RecipientBlacklisted"})
        => ((last.res # "Ok") <=> (\/ Exists(BlacklistPda(m, last.signer))
                                   \/ Exists(BlacklistPda(m, last.subject))))

\* C2: in the state right after a successful mint, the minter record of the
\* signing minter has minted <= quota.
C2_MintedWithinQuotaAfterMint ==
    \A m \in Mints, w \in Wallets :
        (last.op = "mint" /\ last.res = "Ok" /\ last.mint = m /\ last.signer = w)
        => Minter(m, w).minted <= Minter(m, w).quota

\* A successful mint of a positive amount by a minter that had minted before.
C2_Witness ==
    \E m \in Mints, w \in Wallets :
        /\ last.op = "mint" /\ last.res = "Ok" /\ last.mint = m /\ last.signer = w
        /\ last.amount > 0 /\ ledger_minted[m][w] > last.amount

\* C3: in every reachable state every minter record has minted <= quota.
C3_MintedWithinQuotaAlways ==
    \A m \in Mints, w \in Wallets :
        Exists(MinterPda(m, w)) => Minter(m, w).minted <= Minter(m, w).quota

\* A quota set, after issuance, below what the minter has had the ledger mint.
C3_Witness ==
    \E m \in Mints, w \in Wallets :
        /\ last.op \in {"update_minter_quota", "remove_minter"} /\ last.res = "Ok"
        /\ last.mint = m /\ last.subject = w
        /\ ledger_minted[m][w] > Minter(m, w).quota

\* C4: on an unpaused instrument a mint with minted + amount > quota fails
\* with QuotaExceeded and leaves accounts, balances and ledger as they were.
C4_QuotaExceededLeavesState ==
    [][ \A m \in Mints, w \in Wallets :
          (/\ last'.op = "mint" /\ last'.mint = m /\ last'.signer = w
           /\ Exists(ConfigPda(m)) /\ Exists(MinterPda(m, w))
           /\ ~Config(m).paused
           /\ Minter(m, w).minted + last'.amount > Minter(m, w).quota)
          => (last'.res = "QuotaExceeded" /\ last'.cpi = NoCpi /\ Unchanged) ]_vars

\* A mint refused with QuotaExceeded, of an amount above the free quota.
C4_Witness ==
    \E m \in Mints, w \in Wallets :
        /\ last.op = "mint" /\ last.res = "QuotaExceeded"
        /\ last.mint = m /\ last.signer = w
        /\ Minter(m, w).quota > 0
        /\ Minter(m, w).minted + last.amount > Minter(m, w).quota

\* C5: in every reachable state the stored minted counter of a minter equals
\* the total the ledger has minted under that minter's authority.
C5_MintedEqualsLedger ==
    \A m \in Mints, w \in Wallets :
        Exists(MinterPda(m, w)) => Minter(m, w).minted = ledger_minted[m][w]

\* C6: while the instrument is paused mint and burn fail with TokenPaused;
\* freeze, thaw and seize (flag on, seizer signing) make their ledger call
\* whatever the pause flag; unpaused, burn and a mint within quota make theirs.
C6_PauseBlocksIssuanceOnly ==
    \A m \in Mints :
        (Exists(ConfigPda(m)) /\ last.mint = m) =>
            /\ (last.op = "burn" /\ Config(m).paused) => last.res = "TokenPaused"
            /\ (last.op = "mint" /\ Config(m).paused /\ Exists(MinterPda(m, last.signer)))
               => last.res = "TokenPaused"
            /\ last.op \in {"freeze_account", "thaw_account"}
               => (last.cpi = Cpi(last.op, last.signer)
                   /\ last.res \in {"Ok", "LedgerError"})
            /\ (/\ last.op = "seize" /\ Config(m).enable_permanent_delegate
                /\ last.signer = Config(m).seizer)
               => (last.cpi = Cpi("transfer_checked", last.signer)
                   /\ last.res \in {"Ok", "LedgerError"})
            /\ (last.op = "burn" /\ ~Config(m).paused)
               => (last.cpi = Cpi("burn", last.signer)
                   /\ last.res \in {"Ok", "LedgerError"})
            /\ (/\ last.op = "mint" /\ ~Config(m).paused
                /\ Exists(MinterPda(m, last.signer))
                /\ Minter(m, last.signer).minted + last.amount
                       <= Minter(m, last.signer).quota)
               => (last.cpi = Cpi("mint_to", last.signer)
                   /\ last.res \in {"Ok", "LedgerError"})

\* A seize that went through on a paused instrument.
C6_Witness ==
    \E m \in Mints :
        /\ Exists(ConfigPda(m)) /\ Config(m).paused
        /\ last.op = "seize" /\ last.mint = m /\ last.res = "Ok"

\* C7: execute accepts a transfer only when neither the instrument's pause
\* flag nor the hook's pause flag is set.
C7_HookHonoursBothPauseFlags ==
    \A m \in Mints :
        (/\ last.op = "execute" /\ last.mint = m /\ last.res = "Ok"
         /\ Exists(ConfigPda(m)))
        => (~HookData(m).paused /\ ~Config(m).paused)

MasterOps == {"update_roles", "transfer_authority", "add_minter",
              "update_minter_quota", "remove_minter"}

\* The accounts a master-only instruction names are as it needs them: the
\* minter record absent and its rent affordable for add_minter, the record
\* present for the quota instructions.
MasterOpAccountsValid(op, m, signer, w) ==
    /\ Exists(ConfigPda(m))
    /\ op = "add_minter"
       => (~Exists(MinterPda(m, w))
           /\ lamports[signer] >= minimum_balance(MINTER_INFO_LEN))
    /\ op \in {"update_minter_quota", "remove_minter"} => Exists(MinterPda(m, w))

\* C8: update_roles, transfer_authority, add_minter, update_minter_quota and
\* remove_minter succeed only signed by the master authority recorded in the
\* config; signed by anyone else they fail with Unauthorized and change nothing.
C8_MasterOnly ==
    [][ \A m \in Mints :
          (last'.op \in MasterOps /\ last'.mint = m) =>
            /\ last'.res = "Ok" =>
                 (Exists(ConfigPda(m)) /\ last'.signer = Config(m).master_authority)
            /\ (Exists(ConfigPda(m)) /\ last'.signer # Config(m).master_authority)
               => (/\ Unchanged
                   /\ MasterOpAccountsValid(last'.op, m, last'.signer, last'.subject)
                      => last'.res = "Unauthorized") ]_vars

\* The creator, after handing the master authority over, is refused.
C8_Witness ==
    \E m \in Mints :
        /\ Exists(ConfigPda(m))
        /\ last.op \in MasterOps /\ last.mint = m /\ last.res = "Unauthorized"
        /\ last.signer = Creator(m)
        /\ Config(m).master_authority # last.signer

RoleOps == {"pause", "unpause", "add_to_blacklist", "remove_from_blacklist", "seize"}

\* The role field an instruction is gated by.
RoleField(op, config) ==
    IF op \in {"pause", "unpause"} THEN config.pauser
    ELSE IF op \in {"add_to_blacklist", "remove_from_blacklist"} THEN config.blacklister
    ELSE config.seizer

\* The accounts a role-gated instruction names are as it needs them: the
\* entry absent and its rent affordable for add, the entry present for remove.
RoleOpAccountsValid(op, m, signer, user) ==
    /\ Exists(ConfigPda(m))
    /\ op = "add_to_blacklist"
       => (~Exists(BlacklistPda(m, user)) /\ lamports[signer] >= minimum_balance(BLACKLIST_ENTRY_LEN))
    /\ op = "remove_from_blacklist" => Exists(BlacklistPda(m, user))

\* C9: pause and unpause succeed only for the recorded pauser, add and remove
\* blacklist only for the recorded blacklister, seize only for the recorded
\* seizer; any other signer, the master authority included, is refused with
\* Unauthorized and changes nothing.
C9_RoleGates ==
    [][ \A m \in Mints :
          (last'.op \in RoleOps /\ last'.mint = m) =>
            /\ last'.res = "Ok" =>
                 (Exists(ConfigPda(m))
                  /\ last'.signer = RoleField(last'.op, Config(m)))
            /\ (Exists(ConfigPda(m)) /\ last'.signer # RoleField(last'.op, Config(m)))
               => (/\ Unchanged
                   /\ RoleOpAccountsValid(last'.op, m, last'.signer, last'.subject)
                      => last'.res = "Unauthorized") ]_vars

\* The master authority, after update_roles gave the role away, is refused.
C9_Witness ==
    \E m \in Mints :
        /\ Exists(ConfigPda(m))
        /\ last.op \in RoleOps /\ last.mint = m /\ last.res = "Unauthorized"
        /\ last.signer = Config(m).master_authority
        /\ RoleField(last.op, Config(m)) # last.signer

\* C10: a successful add_to_blacklist directly followed by a successful
\* remove_from_blacklist of the same address leaves the accounts and the
\* balances as they were before the add; a remove of an address that has no
\* entry fails and changes nothing.
C10_AddRemoveRoundTrip ==
    [][ /\ pre_add'.stage = 2
           => (accounts' = pre_add'.accounts /\ lamports' = pre_add'.lamports)
        /\ \A m \in Mints, x \in Wallets :
             (/\ last'.op = "remove_from_blacklist" /\ last'.mint = m
              /\ last'.subject = x /\ ~Exists(BlacklistPda(m, x)))
             => (last'.res # "Ok" /\ Unchanged) ]_vars

\* An add directly followed by the remove of the same address, both successful.
C10_Witness ==
    /\ pre_add.stage = 2
    /\ last.op = "remove_from_blacklist" /\ last.res = "Ok"
    /\ ~Exists(BlacklistPda(pre_add.mint, pre_add.user))

\* C11: on an instrument whose enable_transfer_hook flag is off,
\* add_to_blacklist and remove_from_blacklist signed by the recorded
\* blacklister both fail with ComplianceNotEnabled.
C11_FlagOffComplianceNotEnabled ==
    \A m \in Mints :
        (/\ Exists(ConfigPda(m)) /\ ~Config(m).enable_transfer_hook
         /\ last.op \in {"add_to_blacklist", "remove_from_blacklist"}
         /\ last.mint = m /\ last.signer = Config(m).blacklister)
        => last.res = "ComplianceNotEnabled"

\* C12: there is at most one blacklist entry per (instrument, address): in the
\* state any add_to_blacklist is called in, the entry of a pair lives at the one
\* address derived from the pair and addresses of different pairs differ; an
\* add for an address that has an entry fails and leaves the entry, reason and
\* timestamp included, as it was.
C12_BlacklistExclusive ==
    [][ \A m \in Mints, x \in Wallets :
          (last'.op = "add_to_blacklist" /\ last'.mint = m /\ last'.subject = x) =>
            /\ \A y \in Wallets :
                 /\ BlacklistPda(m, x) = BlacklistPda(m, y) => x = y
                 /\ Exists(BlacklistPda(m, y)) => accounts[BlacklistPda(m, y)].user = y
            /\ Exists(BlacklistPda(m, x))
               => (/\ last'.res # "Ok"
                   /\ Unchanged
                   /\ accounts'[BlacklistPda(m, x)] = accounts[BlacklistPda(m, x)]) ]_vars

\* An add, by the blacklister and with another reason and timestamp, refused
\* because the address has an entry.
C12_Witness ==
    \E m \in Mints, x \in Wallets :
        /\ last.op = "add_to_blacklist" /\ last.mint = m /\ last.subject = x
        /\ last.res = "AccountAlreadyInUse"
        /\ last.signer = Config(m).blacklister
        /\ Exists(BlacklistPda(m, x))
        /\ accounts[BlacklistPda(m, x)].timestamp = 2

\* C13: seize makes its ledger call (transfer_checked under the seizer's
\* authority) only when the signer is the recorded seizer and
\* enable_permanent_delegate is on; signed by the seizer with the flag off it
\* fails with PermanentDelegateNotEnabled, signed by anyone else it fails with
\* Unauthorized, and in both cases no ledger call is made.
C13_SeizeGuards ==
    \A m \in Mints :
        (last.op = "seize" /\ last.mint = m /\ Exists(ConfigPda(m))) =>
            /\ last.cpi # NoCpi
               => (/\ last.signer = Config(m).seizer
                   /\ Config(m).enable_permanent_delegate
                   /\ last.cpi = Cpi("transfer_checked", last.signer))
            /\ (last.signer = Config(m).seizer /\ ~Config(m).enable_permanent_delegate)
               => (last.res = "PermanentDelegateNotEnabled" /\ last.cpi = NoCpi)
            /\ last.signer # Config(m).seizer
               => (last.res = "Unauthorized" /\ last.cpi = NoCpi)
            /\ (last.signer = Config(m).seizer /\ Config(m).enable_permanent_delegate)
               => last.cpi = Cpi("transfer_checked", last.signer)

\* The recorded seizer refused because the instrument's flag is off.
C13_Witness ==
    \E m \in Mints :
        /\ Exists(ConfigPda(m))
        /\ last.op = "seize" /\ last.mint = m
        /\ last.signer = Config(m).seizer
        /\ last.res = "PermanentDelegateNotEnabled"

\* C14: once an issuer's quota is below the amount the issuer has issued (the
\* quota was lowered, or the issuer revoked), no issue of a positive amount by
\* that issuer succeeds: a successful mint of a positive amount happens only
\* where the quota is at least the amount issued before the call.
C14_NoIssueOnceQuotaBelowIssued ==
    \A m \in Mints, w \in Wallets :
        (/\ last.op = "mint" /\ last.res = "Ok" /\ last.mint = m /\ last.signer = w
         /\ last.amount > 0)
        => Minter(m, w).quota >= ledger_minted[m][w] - last.amount

\* C15: the minted counter of a minter record never decreases and the record
\* is never destroyed; burn, update_minter_quota and remove_minter leave the
\* counter as it was, and an add_minter for a minter that has a record fails
\* and changes nothing.
C15_MintedMonotone ==
    [][ \A m \in Mints, w \in Wallets :
          Exists(MinterPda(m, w)) =>
            /\ MinterPda(m, w) \in DOMAIN accounts'
            /\ accounts'[MinterPda(m, w)].minted >= Minter(m, w).minted
            /\ last'.op \in {"burn", "update_minter_quota", "remove_minter"}
               => accounts'[MinterPda(m, w)].minted = Minter(m, w).minted
            /\ (last'.op = "add_minter" /\ last'.mint = m /\ last'.subject = w)
               => (last'.res # "Ok" /\ Unchanged) ]_vars

\* A second add_minter, signed by the master authority, for a minter that has
\* issued: refused.
C15_Witness ==
    \E m \in Mints, w \in Wallets :
        /\ last.op = "add_minter" /\ last.mint = m /\ last.subject = w
        /\ last.res = "AccountAlreadyInUse"
        /\ last.signer = Config(m).master_authority
        /\ ledger_minted[m][w] > 0

\* C16: with a minter's quota held as it was granted, and mint transactions
\* submitted in any order and executed one at a time, the sum of the amounts
\* of that minter's successful mints never exceeds the quota.
C16_IssuedWithinHeldQuota ==
    \A m \in Mints, w \in Wallets :
        Exists(MinterPda(m, w)) => ledger_minted[m][w] <= Minter(m, w).quota

\* C18: the hook's execute, whether it accepts or rejects, leaves every account
\* (hook config, instrument config, blacklist entries), every balance and the
\* ledger as they were.
C18_ExecuteMutatesNothing ==
    [][ last'.op = "execute" => Unchanged ]_vars

\* A transfer accepted while a hook config and a blacklist entry exist.
C18_Witness ==
    \E m \in Mints, x \in Wallets :
        /\ last.op = "execute" /\ last.mint = m /\ last.res = "Ok"
        /\ Exists(HookDataPda(m)) /\ Exists(BlacklistPda(m, x))

PauseOps == {"pause", "unpause"}
HookPauseOps == {"hook_pause", "hook_unpause"}

\* The step leaves the account at `address` with only its paused field set to
\* `flag`, and every other account as it was.
OnlyPausedSet(address, flag) ==
    /\ DOMAIN accounts' = DOMAIN accounts
    /\ \A a \in DOMAIN accounts :
         accounts'[a] = IF a = address THEN [accounts[a] EXCEPT !.paused = flag]
                        ELSE accounts[a]

\* C19: the two pause flags are independent.  A successful pause or unpause of
\* the hook sets the hook config's paused field and nothing else; a successful
\* pause or unpause of the instrument sets the instrument config's paused field
\* and nothing else; a mint or burn is refused for a pause only when the
\* instrument's flag is set, whatever the hook's flag.
C19_PauseFlagsIndependent ==
    [][ \A m \in Mints :
          /\ (last'.op \in HookPauseOps /\ last'.mint = m /\ last'.res = "Ok")
             => (/\ OnlyPausedSet(HookDataPda(m), last'.op = "hook_pause")
                 /\ lamports' = lamports /\ ledger_minted' = ledger_minted)
          /\ (last'.op \in PauseOps /\ last'.mint = m /\ last'.res = "Ok")
             => (/\ OnlyPausedSet(ConfigPda(m), last'.op = "pause")
                 /\ lamports' = lamports /\ ledger_minted' = ledger_minted)
          /\ (/\ last'.op \in {"mint", "burn"} /\ last'.mint = m
              /\ last'.res \in {"TokenPaused", "TransferPaused"})
             => Config(m).paused ]_vars

\* A mint of a positive amount that went through while the hook was paused.
C19_Witness ==
    \E m \in Mints :
        /\ last.op = "mint" /\ last.mint = m /\ last.res = "Ok" /\ last.amount > 0
        /\ Exists(HookDataPda(m)) /\ HookData(m).paused
        /\ ~Config(m).paused

\* The fields of a config that no instruction writes after initialize.
Genesis(config) ==
    <<config.mint, config.decimals, config.name, config.symbol, config.uri,
      config.enable_permanent_delegate, config.enable_transfer_hook,
      config.default_account_frozen>>

\* C20: a config, once created, is never destroyed and keeps its mint,
\* decimals, display fields and three feature flags over every step (only the
\* master authority, the three roles and the pause flag change), and an
\* initialize for a mint that has a config fails and changes nothing.
C20_ConfigGenesisFieldsFixed ==
    [][ \A m \in Mints :
          Exists(ConfigPda(m)) =>
            /\ ConfigPda(m) \in DOMAIN accounts'
            /\ Genesis(accounts'[ConfigPda(m)]) = Genesis(Config(m))
            /\ Config(m).mint = m
            /\ (last'.op = "initialize" /\ last'.mint = m)
               => (last'.res # "Ok" /\ Unchanged) ]_vars

\* A second initialize refused on an instrument that is paused and whose
\* master authority and roles have all moved to another identity.
C20_Witness ==
    \E m \in Mints :
        /\ last.op = "initialize" /\ last.mint = m /\ last.res = "AccountAlreadyInUse"
        /\ Exists(ConfigPda(m)) /\ Config(m).paused
        /\ Config(m).master_authority # last.signer
        /\ Config(m).pauser # last.signer
        /\ Config(m).blacklister # last.signer
        /\ Config(m).seizer # last.signer

\* C21: the address the hook probes for an owner of an instrument is the
\* address at which add_to_blacklist creates that owner's entry, so an entry
\* that exists is seen by the hook's probe.
C21_HookProbesRegistryAddress ==
    \A m \in Mints, x \in Wallets :
        (Exists(ConfigPda(m)) /\ Exists(HookDataPda(m))) =>
            /\ HookBlacklistPda(HookData(m).mint, x) = BlacklistPda(m, x)
            /\ Exists(BlacklistPda(m, x))
               => DataLen(HookBlacklistPda(HookData(m).mint, x)) > 0

\* The registry of the instrument holds an entry for the owner.
Blacklisted(m, x) == Exists(BlacklistPda(m, x))

\* C22: execute checks the hook's pause flag, then the source owner, then the
\* destination owner, and the first check that fails gives the error: a paused
\* hook gives TransferPaused whoever is blacklisted; unpaused, a blacklisted
\* source owner gives SenderBlacklisted whether or not the destination owner
\* is blacklisted; RecipientBlacklisted is returned only when the hook is
\* unpaused and the source owner is not blacklisted.
C22_HookCheckOrder ==
    \A m \in Mints :
        (/\ last.op = "execute" /\ last.mint = m
         /\ Exists(ConfigPda(m)) /\ Exists(HookDataPda(m))
         /\ last.res # "InvalidMintAccount") =>
            /\ HookData(m).paused => last.res = "TransferPaused"
            /\ (~HookData(m).paused /\ Blacklisted(m, last.signer))
               => last.res = "SenderBlacklisted"
            /\ last.res = "RecipientBlacklisted"
               => (~HookData(m).paused /\ ~Blacklisted(m, last.signer))

InitializeRecords(m, authority, input) ==
    LET out == initialize(authority, m, input[2][1], input[2][2], input[2][3],
                          6, input[1])
        config == out.accounts[ConfigPda(m)]
    IN  out.res = "Ok" =>
            /\ config.master_authority = authority
            /\ config.paused = FALSE
            /\ <<config.enable_permanent_delegate, config.enable_transfer_hook,
                 config.default_account_frozen>> = input[1]
            /\ config.blacklister = authority
            /\ config.pauser = authority
            /\ config.seizer = authority

\* C24: a successful initialize records the signer as master authority, not
\* paused, the three flags as given and blacklister, pauser and seizer equal
\* to the signer; as long as no update_roles is made, pause, unpause, add and
\* remove blacklist and seize succeed for the creator only and never refuse
\* the creator as unauthorized.
C24_GenesisDefaults ==
    \A m \in Mints :
        /\ ~Exists(ConfigPda(m))
           => \A authority \in Wallets, input \in InitializeInputs :
                InitializeRecords(m, authority, input)
        /\ (last.op = "initialize" /\ last.mint = m /\ last.res = "Ok")
           => (/\ Config(m).master_authority = last.signer
               /\ Creator(m) = last.signer
               /\ ~Config(m).paused
               /\ Config(m).blacklister = last.signer
               /\ Config(m).pauser = last.signer
               /\ Config(m).seizer = last.signer)
        /\ (Exists(ConfigPda(m)) /\ last.op \in RoleOps /\ last.mint = m)
           => (/\ last.res = "Ok" => last.signer = Creator(m)
               /\ last.signer = Creator(m) => last.res # "Unauthorized")

\* The creator, never assigned a role by update_roles, has paused the
\* instrument and then seized.
C24_Witness ==
    \E m \in Mints :
        /\ Exists(ConfigPda(m)) /\ Config(m).paused
        /\ last.op = "seize" /\ last.mint = m /\ last.res = "Ok"
        /\ last.signer = Creator(m)

\* C25: a mint signed by an identity that has no minter record for the
\* instrument fails, calls nothing and changes nothing; a successful mint is
\* signed by the identity its minter record was granted to, changes no account
\* other than that record, so the quota and minted of every other minter of
\* the instrument and of every minter of every other instrument stay as they
\* were, and adds to no other minter's total on the ledger.
C25_IssuanceConfinedToOwnRecord ==
    [][ last'.op = "mint" =>
          LET m == last'.mint
              w == last'.signer
          IN  /\ ~Exists(MinterPda(m, w))
                 => (last'.res # "Ok" /\ last'.cpi = NoCpi /\ Unchanged)
              /\ last'.res = "Ok" =>
                   /\ Exists(MinterPda(m, w))
                   /\ Minter(m, w).authority = w
                   /\ DOMAIN accounts' = DOMAIN accounts
                   /\ \A a \in DOMAIN accounts \ {MinterPda(m, w)} :
                        accounts'[a] = accounts[a]
                   /\ \A m2 \in Instruments, w2 \in Wallets :
                        <<m2, w2>> # <<m, w>>
                        => /\ Exists(MinterPda(m2, w2))
                              => /\ Exists(MinterPda(m2, w2))'
                                 /\ Minter(m2, w2)'.quota = Minter(m2, w2).quota
                                 /\ Minter(m2, w2)'.minted = Minter(m2, w2).minted
                           /\ ledger_minted'[m2][w2] = ledger_minted[m2][w2] ]_vars

\* A successful mint of a positive amount by one minter while another minter
\* of the same instrument and a minter of another instrument, each with a
\* quota of its own, hold their records.
C25_Witness ==
    \E m \in Instruments, m2 \in Instruments, w \in Wallets, w2 \in Wallets,
       w3 \in Wallets :
        /\ w2 # w /\ m2 # m
        /\ last.op = "mint" /\ last.mint = m /\ last.signer = w
        /\ last.res = "Ok" /\ last.amount > 0
        /\ Exists(MinterPda(m, w2)) /\ Minter(m, w2).quota > 0
        /\ Exists(MinterPda(m2, w3)) /\ Minter(m2, w3).quota > 0

\* C26: a successful transfer_authority changes the master authority of the
\* config to the new key and nothing else (the three roles, the pause flag and
\* every minter and blacklist record stay as they were); the master authority
\* then stays with the new key until the next successful transfer_authority;
\* and a master-only instruction whose accounts are as it needs them fails
\* with Unauthorized, changing nothing, when signed by anyone but the current
\* master authority, the previous one included, and succeeds when signed by it.
C26_AuthorityHandover ==
    [][ \A m \in Mints :
          Exists(ConfigPda(m)) =>
            /\ (/\ last'.op = "transfer_authority" /\ last'.mint = m
                /\ last'.res = "Ok")
               => (/\ accounts' = [accounts EXCEPT
                                     ![ConfigPda(m)].master_authority = last'.subject]
                   /\ lamports' = lamports /\ ledger_minted' = ledger_minted)
            /\ ~(/\ last'.op = "transfer_authority" /\ last'.mint = m
                 /\ last'.res = "Ok")
               => (/\ ConfigPda(m) \in DOMAIN accounts'
                   /\ accounts'[ConfigPda(m)].master_authority
                        = Config(m).master_authority)
            /\ (/\ last'.op \in MasterOps /\ last'.mint = m
                /\ MasterOpAccountsValid(last'.op, m, last'.signer, last'.subject))
               => (/\ last'.signer # Config(m).master_authority
                      => (last'.res = "Unauthorized" /\ Unchanged)
                   /\ last'.signer = Config(m).master_authority
                      => last'.res = "Ok") ]_vars

\* A master-only instruction succeeds signed by a key that is not the
\* creator, while the creator, no longer master authority, still holds the
\* three roles of genesis.
C26_Witness ==
    \E m \in Mints :
        /\ Exists(ConfigPda(m))
        /\ last.op \in MasterOps \ {"transfer_authority", "update_roles"}
        /\ last.mint = m /\ last.res = "Ok"
        /\ last.signer # Creator(m)
        /\ Config(m).master_authority = last.signer
        /\ Config(m).blacklister = Creator(m)
        /\ Config(m).pauser = Creator(m)
        /\ Config(m).seizer = Creator(m)
====
